---- MODULE Spec2Model ----
(***************************************************************************)
(* A model of cross-bridge.cpp: the Bridge class with its roster           *)
(* waitingPeople and its two solvers, crossNaively (the Naive Method) and  *)
(* crossOptimally (the Shielding Method), run back to back by main.        *)
(*                                                                         *)
(* Indices are the source's 0-based indices: At(s, i) is s[i] of the C++.  *)
(* The text the solvers write to std::cout is modelled as the sequence     *)
(* `log` of their lines: the crossing lines ("X and Y cross", "X crosses", *)
(* "X returns"), the "Fastest overall person" line and the two headers.    *)
(***************************************************************************)
EXTENDS Integers, Sequences, FiniteSets, TLC

\* ------------------------------------------------------------------ bounds
\* the longest roster and the largest speed readPeopleFile loads
MaxLen == 6
MaxSpeed == 3
\* the puzzle is played on rosters in ascending order of speed up to MaxLen
\* people, and on rosters in any order up to ShuffledLen people
ShuffledLen == 5
\* the largest amount by which one person is slowed down in a comparison
MaxIncrease == 2

\* std::numeric_limits<int>::max(), the start value of the fastest scan.
\* Speeds and totals stay below it (assumption 5 of the file header), so the
\* scan always finds a person and no sum overflows.
IntMax == 2147483647

\* ------------------------------------------------------------------ Person
\* class Person: a name and a speed.
Person(n, s) == [name |-> n, speed |-> s]

\* The name of the i-th record of the file (A, B, ... as in the file format
\* shown in readPeopleFile), so that log lines can be told apart.
NameOf(i) == <<"A", "B", "C", "D", "E", "F", "G", "H", "I", "J", "K", "L">>[i]

getSpeed(p) == p.speed

getName(p) == p.name

\* Person::operator< : by speed only
Less(a, b) == a.speed < b.speed

\* v[i] of a std::vector, i counted from 0
At(v, i) == v[i + 1]

size(v) == Len(v)

\* std::vector::pop_back
pop_back(v) == SubSeq(v, 1, Len(v) - 1)

\* std::queue::pop
pop(qu) == Tail(qu)

\* std::queue::front
front(qu) == Head(qu)

\* the sequence v without its element number i (counted from 1)
Without(v, i) == SubSeq(v, 1, i - 1) \o SubSeq(v, i + 1, Len(v))

\* ------------------------------------------------------------------ log lines
CrossLine(a, b) == [kind |-> "cross", who |-> <<getName(a), getName(b)>>]

CrossesLine(a) == [kind |-> "crosses", who |-> <<getName(a)>>]

ReturnsLine(a) == [kind |-> "returns", who |-> <<getName(a)>>]

FastestLine(a) == [kind |-> "fastest", who |-> <<getName(a)>>]

NaiveHeader == [kind |-> "header", who |-> <<"Naive sequence of bridge crossings:">>]

OptimalHeader == [kind |-> "header", who |-> <<"Optimal sequence of bridge crossings:">>]

\* ------------------------------------------------------------------ input
\* The rosters readPeopleFile can load: any list of at most MaxLen people
\* with speeds 1..MaxSpeed (assumption 4 of the file header).
SpeedLists == UNION {[1..n -> 1..MaxSpeed] : n \in 0..MaxLen}

MakeRoster(sp) == [i \in 1..Len(sp) |-> Person(NameOf(i), sp[i])]

Rosters == {MakeRoster(sp) : sp \in SpeedLists}

\* The instance of the problem description: A crosses in 1 minute, B in 2,
\* C in 5 and D in 10; the file may list them in any order.
ClassicPeople == {Person("A", 1), Person("B", 2), Person("C", 5), Person("D", 10)}

ClassicRosters ==
  {r \in [1..4 -> ClassicPeople] : \A i, j \in 1..4 : r[i] = r[j] => i = j}

Speeds(people) == [i \in 1..Len(people) |-> getSpeed(people[i])]

\* ------------------------------------------------------------------ std::sort
\* std::sort with Person::operator< is not stable: it may leave people of
\* equal speed in any order. StdSort(v) is the set of its possible results.
NoSort(v) == {v}

RECURSIVE StdSort(_)
StdSort(v) ==
  IF v = <<>> THEN {<<>>}
  ELSE UNION { {<<v[i]>> \o r : r \in StdSort(Without(v, i))} :
               i \in {k \in 1..Len(v) : \A j \in 1..Len(v) : ~Less(v[j], v[k])} }

\* one of these results, the one that leaves people of equal speed in their
\* order: each person is put behind the people not slower that come before
RECURSIVE InsertBehind(_, _)
InsertBehind(s, p) ==
  IF s = <<>> THEN <<p>>
  ELSE IF Less(p, s[Len(s)])
       THEN Append(InsertBehind(SubSeq(s, 1, Len(s) - 1), p), s[Len(s)])
       ELSE Append(s, p)

RECURSIVE StableSorted(_)
StableSorted(v) ==
  IF v = <<>> THEN <<>>
  ELSE InsertBehind(StableSorted(SubSeq(v, 1, Len(v) - 1)), v[Len(v)])

\* ------------------------------------------------------------------ crossNaively
\* the scan for the fastest person, from index i on
RECURSIVE ScanFastest(_, _, _)
ScanFastest(people, i, acc) ==
  IF ~(i < size(people)) THEN acc
  ELSE ScanFastest(people, i + 1,
         IF getSpeed(At(people, i)) < getSpeed(acc.fastest)
         THEN [fastest |-> Person(getName(At(people, i)), getSpeed(At(people, i))),
               fastestindex |-> i]
         ELSE acc)

FindFastestFirst(people) ==
  [fastest |-> Person(getName(At(people, 0)), getSpeed(At(people, 0))), fastestindex |-> 0]

FindFastest(people) ==
  ScanFastest(people, 0, [fastest |-> Person("maxint", IntMax), fastestindex |-> -1])

\* the loop that puts every person but the fastest into the queue
RECURSIVE FillQueue(_, _, _, _)
FillQueue(people, skip, i, qu) ==
  IF ~(i < size(people)) THEN qu
  ELSE FillQueue(people, skip, i + 1,
         IF i # skip
         THEN Append(qu, Person(getName(At(people, i)), getSpeed(At(people, i))))
         ELSE qu)

\* one iteration of the loop that processes the queue
NaiveIter(st, fast) ==
  LET t1 == st.totalSpeed + getSpeed(front(st.q))
      l1 == Append(st.log, CrossLine(front(st.q), fast))
      q1 == pop(st.q)
  IN IF size(q1) > 0
     THEN [q |-> q1, totalSpeed |-> t1 + getSpeed(fast),
           log |-> Append(l1, ReturnsLine(fast))]
     ELSE [q |-> q1, totalSpeed |-> t1, log |-> l1]

RECURSIVE NaiveDrain(_, _)
NaiveDrain(st, fast) ==
  IF size(st.q) > 0 THEN NaiveDrain(NaiveIter(st, fast), fast) ELSE st

\* crossNaively as a whole: its return value, its log lines and the roster
\* it leaves behind
CrossNaivelyRun(people) ==
  IF size(people) = 0 THEN [total |-> 0, log |-> <<>>, people |-> people]
  ELSE IF size(people) = 1
  THEN [total |-> getSpeed(At(people, 0)), log |-> <<>>, people |-> people]
  ELSE LET f == FindFastest(people)
           qu == FillQueue(people, f.fastestindex, 0, <<>>)
           end == NaiveDrain([q |-> qu, totalSpeed |-> 0,
                              log |-> <<FastestLine(f.fastest), NaiveHeader>>], f.fastest)
       IN [total |-> end.totalSpeed, log |-> end.log, people |-> people]

\* ------------------------------------------------------------------ crossOptimally
totalShieldingOneReturn(wp) ==
  LET n == size(wp)
  IN getSpeed(At(wp, 1)) + getSpeed(At(wp, 0)) + getSpeed(At(wp, n - 1))

totalShielding(wp) ==
  LET n == size(wp)
  IN getSpeed(At(wp, 1)) + getSpeed(At(wp, 0)) +
     getSpeed(At(wp, n - 1)) + getSpeed(At(wp, 1))

totalNaive(wp) ==
  LET n == size(wp)
  IN getSpeed(At(wp, n - 1)) + getSpeed(At(wp, 0)) +
     getSpeed(At(wp, n - 2)) + getSpeed(At(wp, 0))

UseShieldingAlways(wp) == TRUE

UseShieldingNever(wp) == FALSE

UseShieldingOnTie(wp) == totalShielding(wp) <= totalNaive(wp)

UseShieldingDropFastest(wp) ==
  2 * getSpeed(At(wp, 1)) < getSpeed(At(wp, size(wp) - 2))

\* the test that selects the Shielding Method in the loop
UseShielding(wp) == totalShielding(wp) < totalNaive(wp)

ShieldingLinesFastestReturns(wp) ==
  LET n == size(wp)
  IN << CrossLine(At(wp, 1), At(wp, 0)), ReturnsLine(At(wp, 0)),
        CrossLine(At(wp, n - 1), At(wp, n - 2)), ReturnsLine(At(wp, 0)) >>

ShieldingLines(wp) ==
  LET n == size(wp)
  IN << CrossLine(At(wp, 1), At(wp, 0)), ReturnsLine(At(wp, 0)),
        CrossLine(At(wp, n - 1), At(wp, n - 2)), ReturnsLine(At(wp, 1)) >>

NaiveLines(wp) ==
  LET n == size(wp)
  IN << CrossLine(At(wp, n - 1), At(wp, 0)), ReturnsLine(At(wp, 0)),
        CrossLine(At(wp, n - 2), At(wp, 0)), ReturnsLine(At(wp, 0)) >>

LoopRemainderOne(wp) == pop_back(wp)

\* what the two pop_back calls at the end of the loop body leave
LoopRemainder(wp) == pop_back(pop_back(wp))

\* one iteration of the while loop (size >= 4)
OptIter(st) ==
  LET wp == st.waitingPeople
  IN IF UseShielding(wp)
     THEN [waitingPeople |-> LoopRemainder(wp),
           totalSpeed |-> st.totalSpeed + totalShielding(wp),
           log |-> st.log \o ShieldingLines(wp)]
     ELSE [waitingPeople |-> LoopRemainder(wp),
           totalSpeed |-> st.totalSpeed + totalNaive(wp),
           log |-> st.log \o NaiveLines(wp)]

\* the cases of 0 to 3 people left
OptBase(st) ==
  LET wp == st.waitingPeople
  IN IF size(wp) = 0
     THEN [waitingPeople |-> wp, totalSpeed |-> st.totalSpeed + 0, log |-> st.log]
     ELSE IF size(wp) = 1
     THEN [waitingPeople |-> pop_back(wp),
           totalSpeed |-> st.totalSpeed + getSpeed(At(wp, 0)),
           log |-> Append(st.log, CrossesLine(At(wp, 0)))]
     ELSE IF size(wp) = 2
     THEN [waitingPeople |-> pop_back(pop_back(wp)),
           totalSpeed |-> st.totalSpeed + getSpeed(At(wp, 1)),
           log |-> Append(st.log, CrossLine(At(wp, 1), At(wp, 0)))]
     ELSE IF size(wp) = 3
     THEN [waitingPeople |-> pop_back(pop_back(pop_back(wp))),
           totalSpeed |-> st.totalSpeed + getSpeed(At(wp, 0)) +
                          getSpeed(At(wp, 1)) + getSpeed(At(wp, 2)),
           log |-> st.log \o << CrossLine(At(wp, 2), At(wp, 0)), ReturnsLine(At(wp, 0)),
                                CrossLine(At(wp, 1), At(wp, 0)) >>]
     ELSE st

RECURSIVE OptLoop(_)
OptLoop(st) ==
  IF size(st.waitingPeople) >= 4 THEN OptLoop(OptIter(st)) ELSE st

\* crossOptimally after the sort, on the sorted roster
CrossOptimallyFrom(sorted) ==
  OptBase(OptLoop([waitingPeople |-> sorted, totalSpeed |-> 0, log |-> <<OptimalHeader>>]))

\* crossOptimally on a roster, the sort leaving equal speeds in their order
CrossOptimallyRun(people) == CrossOptimallyFrom(StableSorted(people))

\* the results crossOptimally can produce on a roster: one per outcome of the sort
CrossOptimallyRuns(people) == {CrossOptimallyFrom(s) : s \in StdSort(people)}

CrossOptimallyTotals(people) == {r.totalSpeed : r \in CrossOptimallyRuns(people)}

\* ------------------------------------------------------------------ the program
VARIABLES
  pc,             \* where main is
  waitingPeople,  \* Bridge::waitingPeople
  totalSpeed,     \* the running solver's local totalSpeed
  fastest,        \* crossNaively's local fastest
  fastestindex,   \* crossNaively's local fastestindex
  q,              \* crossNaively's local queue
  log,            \* the crossing lines written so far
  naiveTotal,     \* main's total after crossNaively returned
  optTotal,       \* main's total after crossOptimally returned
  loaded,         \* history: the roster as readPeopleFile loaded it
  near,           \* the puzzle: the people (positions in `loaded`) not yet across
  torch,          \* the puzzle: the side the torch is on
  elapsed         \* the puzzle: the minutes spent so far

progVars == <<pc, waitingPeople, totalSpeed, fastest, fastestindex, q, log,
              naiveTotal, optTotal>>

puzzleVars == <<near, torch, elapsed>>

vars == <<progVars, loaded, puzzleVars>>

\* the state after `Bridge narrowBridge;`
Init ==
  /\ pc = "read"
  /\ waitingPeople = <<>>
  /\ totalSpeed = 0
  /\ fastest = Person("", 0)
  /\ fastestindex = -1
  /\ q = <<>>
  /\ log = <<>>
  /\ naiveTotal = 0
  /\ optTotal = 0
  /\ loaded = <<>>
  /\ near = {}
  /\ torch = "near"
  /\ elapsed = 0

\* narrowBridge.readPeopleFile(...): one emplace_back per record of the file
readPeopleFile ==
  /\ pc = "read"
  /\ \E people \in Rosters :
       /\ waitingPeople' = waitingPeople \o people
       /\ loaded' = people
  /\ pc' = "naive"
  /\ UNCHANGED <<totalSpeed, fastest, fastestindex, q, log, naiveTotal, optTotal, puzzleVars>>

\* readPeopleFile on a file that holds the instance of the problem description
readClassicFile ==
  /\ pc = "read"
  /\ \E people \in ClassicRosters :
       /\ waitingPeople' = waitingPeople \o people
       /\ loaded' = people
  /\ pc' = "naive"
  /\ UNCHANGED <<totalSpeed, fastest, fastestindex, q, log, naiveTotal, optTotal, puzzleVars>>

\* crossNaively, no people: return 0
NaiveNoPeople ==
  /\ pc = "naive"
  /\ size(waitingPeople) = 0
  /\ totalSpeed' = 0
  /\ naiveTotal' = 0
  /\ pc' = "optimal"
  /\ UNCHANGED <<waitingPeople, fastest, fastestindex, q, log, optTotal, loaded, puzzleVars>>

\* crossNaively, one person: return that person's speed
NaiveOnePerson ==
  /\ pc = "naive"
  /\ size(waitingPeople) = 1
  /\ totalSpeed' = 0
  /\ naiveTotal' = getSpeed(At(waitingPeople, 0))
  /\ pc' = "optimal"
  /\ UNCHANGED <<waitingPeople, fastest, fastestindex, q, log, optTotal, loaded, puzzleVars>>

NaiveSetUpConsuming ==
  /\ pc = "naive"
  /\ size(waitingPeople) > 1
  /\ totalSpeed' = 0
  /\ LET f == FindFastest(waitingPeople)
     IN /\ fastest' = f.fastest
        /\ fastestindex' = f.fastestindex
        /\ q' = FillQueue(waitingPeople, f.fastestindex, 0, <<>>)
        /\ log' = log \o <<FastestLine(f.fastest), NaiveHeader>>
  /\ waitingPeople' = <<>>
  /\ pc' = "naiveLoop"
  /\ UNCHANGED <<naiveTotal, optTotal, loaded, puzzleVars>>

\* crossNaively, two or more people: find the fastest, fill the queue
NaiveSetUp ==
  /\ pc = "naive"
  /\ size(waitingPeople) > 1
  /\ totalSpeed' = 0
  /\ LET f == FindFastest(waitingPeople)
     IN /\ fastest' = f.fastest
        /\ fastestindex' = f.fastestindex
        /\ q' = FillQueue(waitingPeople, f.fastestindex, 0, <<>>)
        /\ log' = log \o <<FastestLine(f.fastest), NaiveHeader>>
  /\ pc' = "naiveLoop"
  /\ UNCHANGED <<waitingPeople, naiveTotal, optTotal, loaded, puzzleVars>>

\* one iteration of crossNaively's queue loop
NaiveCross ==
  /\ pc = "naiveLoop"
  /\ size(q) > 0
  /\ LET st == NaiveIter([q |-> q, totalSpeed |-> totalSpeed, log |-> log], fastest)
     IN /\ q' = st.q
        /\ totalSpeed' = st.totalSpeed
        /\ log' = st.log
  /\ UNCHANGED <<pc, waitingPeople, fastest, fastestindex, naiveTotal, optTotal, loaded, puzzleVars>>

\* crossNaively returns totalSpeed
NaiveReturn ==
  /\ pc = "naiveLoop"
  /\ ~(size(q) > 0)
  /\ naiveTotal' = totalSpeed
  /\ pc' = "optimal"
  /\ UNCHANGED <<waitingPeople, totalSpeed, fastest, fastestindex, q, log, optTotal, loaded, puzzleVars>>

\* crossOptimally: totalSpeed = 0 and the sort
OptSort ==
  /\ pc = "optimal"
  /\ totalSpeed' = 0
  /\ waitingPeople' \in StdSort(waitingPeople)
  /\ log' = Append(log, OptimalHeader)
  /\ pc' = "optLoop"
  /\ UNCHANGED <<fastest, fastestindex, q, naiveTotal, optTotal, loaded, puzzleVars>>

\* the state the loop of crossOptimally works on
OptState == [waitingPeople |-> waitingPeople, totalSpeed |-> totalSpeed, log |-> log]

\* one iteration of crossOptimally's loop, the Shielding Method chosen
OptLoopShielding ==
  /\ pc = "optLoop"
  /\ size(waitingPeople) >= 4
  /\ UseShielding(waitingPeople)
  /\ LET st == OptIter(OptState)
     IN /\ waitingPeople' = st.waitingPeople
        /\ totalSpeed' = st.totalSpeed
        /\ log' = st.log
  /\ UNCHANGED <<pc, fastest, fastestindex, q, naiveTotal, optTotal, loaded, puzzleVars>>

\* one iteration of crossOptimally's loop, the Naive Method chosen
OptLoopNaive ==
  /\ pc = "optLoop"
  /\ size(waitingPeople) >= 4
  /\ ~UseShielding(waitingPeople)
  /\ LET st == OptIter(OptState)
     IN /\ waitingPeople' = st.waitingPeople
        /\ totalSpeed' = st.totalSpeed
        /\ log' = st.log
  /\ UNCHANGED <<pc, fastest, fastestindex, q, naiveTotal, optTotal, loaded, puzzleVars>>

\* the loop is left: 0 to 3 people remain; crossOptimally returns totalSpeed
OptFinish ==
  /\ pc = "optLoop"
  /\ ~(size(waitingPeople) >= 4)
  /\ LET st == OptBase(OptState)
     IN /\ waitingPeople' = st.waitingPeople
        /\ totalSpeed' = st.totalSpeed
        /\ log' = st.log
        /\ optTotal' = st.totalSpeed
  /\ pc' = "done"
  /\ UNCHANGED <<fastest, fastestindex, q, naiveTotal, loaded, puzzleVars>>

Next ==
  \/ readPeopleFile
  \/ NaiveNoPeople
  \/ NaiveOnePerson
  \/ NaiveSetUp
  \/ NaiveCross
  \/ NaiveReturn
  \/ OptSort
  \/ OptLoopShielding
  \/ OptLoopNaive
  \/ OptFinish

Spec == Init /\ [][Next]_vars

\* a step of crossOptimally after the sort
OptStep == OptLoopShielding \/ OptLoopNaive \/ OptFinish

\* crossOptimally is sequential code: once std::sort has returned, it takes
\* its next step whenever it has one
FairSpec == Spec /\ WF_vars(OptStep)

\* main on the instance of the problem description
ClassicNext ==
  \/ readClassicFile
  \/ NaiveSetUp
  \/ NaiveCross
  \/ NaiveReturn
  \/ OptSort
  \/ OptLoopShielding
  \/ OptFinish

ClassicSpec == Init /\ [][ClassicNext]_vars

\* ------------------------------------------------------------------ the puzzle
\* The problem of the file header: one torch, the bridge holds two people at
\* a time, the torch has to be used on every crossing, two people together
\* move at the slower person's pace. A move takes one or two people with the
\* torch from the torch's side to the other side.
Max(S) == CHOOSE x \in S : \A y \in S : y <= x

Everyone == 1..Len(loaded)

Groups(side) == {g \in SUBSET side : Cardinality(g) \in {1, 2}}

Pace(g) == Max({getSpeed(loaded[i]) : i \in g})

\* no schedule longer than the answer of crossOptimally is followed further
Budget == optTotal

Nondecreasing(sp) == \A i \in 1..(Len(sp) - 1) : sp[i] <= sp[i + 1]

PuzzleRosters ==
  {r \in Rosters : Len(r) <= ShuffledLen \/ Nondecreasing(Speeds(r))}

\* main has run on a roster and holds the two solvers' answers; the puzzle
\* is then played on that roster
PuzzleInit ==
  /\ pc = "puzzle"
  /\ loaded \in PuzzleRosters
  /\ waitingPeople = <<>>
  /\ totalSpeed = 0
  /\ fastest = Person("", 0)
  /\ fastestindex = -1
  /\ q = <<>>
  /\ log = <<>>
  /\ naiveTotal = CrossNaivelyRun(loaded).total
  /\ optTotal \in CrossOptimallyTotals(loaded)
  /\ near = 1..Len(loaded)
  /\ torch = "near"
  /\ elapsed = 0

\* one or two people cross from the near side with the torch
Cross ==
  /\ pc = "puzzle"
  /\ torch = "near"
  /\ \E g \in Groups(near) :
       /\ elapsed + Pace(g) <= Budget
       /\ near' = near \ g
       /\ elapsed' = elapsed + Pace(g)
  /\ torch' = "far"
  /\ UNCHANGED <<progVars, loaded>>

\* one or two people come back from the far side with the torch
Return ==
  /\ pc = "puzzle"
  /\ torch = "far"
  /\ near # {}
  /\ \E g \in Groups(Everyone \ near) :
       /\ elapsed + Pace(g) <= Budget
       /\ near' = near \cup g
       /\ elapsed' = elapsed + Pace(g)
  /\ torch' = "near"
  /\ UNCHANGED <<progVars, loaded>>

PuzzleNext ==
  \/ Cross
  \/ Return

PuzzleSpec == PuzzleInit /\ [][PuzzleNext]_vars

\* ------------------------------------------------------------------ properties
\* the roster with the people at positions i and j exchanged
Swapped(people, i, j) ==
  [k \in 1..Len(people) |->
     IF k = i THEN people[j] ELSE IF k = j THEN people[i] ELSE people[k]]

\* the roster with the person at position i slower by d
Slower(people, i, d) ==
  [people EXCEPT ![i] = Person(getName(people[i]), getSpeed(people[i]) + d)]

\* the lines crossOptimally wrote: those after its header
OptimalLog ==
  LET h == CHOOSE k \in 1..Len(log) : log[k] = OptimalHeader
  IN SubSeq(log, h + 1, Len(log))

\* the last n lines written
LastLines(n) == SubSeq(log, Len(log) - n + 1, Len(log))

\* a step that is one iteration of crossOptimally's loop
IterStep == pc = "optLoop" /\ pc' = "optLoop" /\ waitingPeople' # waitingPeople

ShieldingTaken ==
  /\ log' = log \o ShieldingLines(waitingPeople)
  /\ totalSpeed' = totalSpeed + totalShielding(waitingPeople)

PairwiseTaken ==
  /\ log' = log \o NaiveLines(waitingPeople)
  /\ totalSpeed' = totalSpeed + totalNaive(waitingPeople)

\* C1: when main has run both solvers on a roster, the total of
\* crossOptimally is at most the total of crossNaively.
C1_OptimalAtMostNaive == pc = "done" => optTotal <= naiveTotal

C1_Witness == pc = "done" /\ Len(loaded) >= 4 /\ optTotal < naiveTotal

\* C2: no legal schedule of the puzzle that gets everyone across takes less
\* time than the total crossOptimally returns for the roster.
C2_NoFasterSchedule == (pc = "puzzle" /\ near = {}) => elapsed >= optTotal

\* a schedule that gets everyone across in exactly that total, on a roster
\* where it beats crossNaively
C2_Witness ==
  /\ pc = "puzzle"
  /\ near = {}
  /\ Len(loaded) >= 4
  /\ elapsed = optTotal
  /\ optTotal < naiveTotal

\* C3: for 0 people both solvers return 0, for one person both return that
\* person's speed, for two people both return the larger of the two speeds.
C3_SmallRosters ==
  pc = "done" =>
    /\ Len(loaded) = 0 => (naiveTotal = 0 /\ optTotal = 0)
    /\ Len(loaded) = 1 =>
         (naiveTotal = getSpeed(loaded[1]) /\ optTotal = getSpeed(loaded[1]))
    /\ Len(loaded) = 2 =>
         LET m == Max({getSpeed(loaded[1]), getSpeed(loaded[2])})
         IN naiveTotal = m /\ optTotal = m

\* two people, the slower one listed first
C3_Witness ==
  /\ pc = "done"
  /\ Len(loaded) = 2
  /\ getSpeed(loaded[1]) > getSpeed(loaded[2])
  /\ optTotal = getSpeed(loaded[1])

\* C4: on the instance 1, 2, 5, 10 in any order crossOptimally returns 17
\* and crossNaively returns 19.
C4_ClassicTotals == pc = "done" => (optTotal = 17 /\ naiveTotal = 19)

C4_Witness ==
  /\ pc = "done"
  /\ Speeds(loaded) = <<10, 2, 1, 5>>
  /\ optTotal = 17
  /\ naiveTotal = 19

\* C5: crossNaively leaves waitingPeople as it was loaded, and crossOptimally
\* run after it returns the total it returns on the roster as loaded.
C5_NaiveKeepsRoster ==
  /\ pc \in {"naive", "naiveLoop", "optimal"} => waitingPeople = loaded
  /\ pc = "done" => optTotal = CrossOptimallyRun(loaded).totalSpeed

C5_Witness ==
  /\ pc = "done"
  /\ Len(loaded) >= 4
  /\ ~Nondecreasing(Speeds(loaded))
  /\ \E k \in 1..Len(log) : log[k] = NaiveHeader
  /\ optTotal = CrossOptimallyRun(loaded).totalSpeed

\* C6: exchanging two neighbours of the roster changes neither solver's
\* total. (Every reordering is a sequence of such exchanges, and every
\* roster in between is one of the rosters checked.) The totals of the roster
\* as loaded are those main got: naiveTotal when crossNaively has returned,
\* optTotal when crossOptimally has.
C6_PermutationInvariant ==
  /\ pc = "optimal" =>
       \A i \in 1..(Len(loaded) - 1) :
         LET other == Swapped(loaded, i, i + 1)
         IN /\ CrossNaivelyRun(other).total = naiveTotal
            /\ CrossOptimallyRun(other).totalSpeed = CrossOptimallyRun(loaded).totalSpeed
  /\ pc = "done" => optTotal = CrossOptimallyRun(loaded).totalSpeed

\* two people tie for the fastest, and a slower one is exchanged with one of them
C6_Witness ==
  /\ pc = "done"
  /\ Len(loaded) >= 4
  /\ getSpeed(loaded[1]) = getSpeed(loaded[2])
  /\ \A k \in 1..Len(loaded) : getSpeed(loaded[1]) <= getSpeed(loaded[k])
  /\ getSpeed(loaded[2]) < getSpeed(loaded[3])
  /\ CrossNaivelyRun(Swapped(loaded, 2, 3)).total = naiveTotal
  /\ CrossOptimallyRun(Swapped(loaded, 2, 3)).totalSpeed = optTotal

\* C7: making any one person slower, the others as they are, decreases
\* neither solver's total. The totals of the roster as loaded are those main
\* got: naiveTotal when crossNaively has returned, optTotal when
\* crossOptimally has.
C7_Monotone ==
  /\ pc = "optimal" =>
       \A i \in 1..Len(loaded) : \A d \in 1..MaxIncrease :
         LET other == Slower(loaded, i, d)
         IN /\ CrossNaivelyRun(other).total >= naiveTotal
            /\ CrossOptimallyRun(other).totalSpeed >= CrossOptimallyRun(loaded).totalSpeed
  /\ pc = "done" => CrossOptimallyRun(loaded).totalSpeed >= optTotal

\* the only fastest person is slowed down and is then no longer the fastest
C7_Witness ==
  /\ pc = "done"
  /\ Len(loaded) >= 4
  /\ \A k \in 2..Len(loaded) : getSpeed(loaded[1]) < getSpeed(loaded[k])
  /\ \E d \in 1..MaxIncrease :
       LET other == Slower(loaded, 1, d)
       IN /\ getSpeed(other[1]) > getSpeed(other[2])
          /\ CrossNaivelyRun(other).total > naiveTotal
          /\ CrossOptimallyRun(other).totalSpeed > optTotal

\* C8: for a roster of one person crossNaively returns that person's speed
\* and writes exactly one "crosses" line, for that person, and no "returns"
\* line.
C8_OnePersonCrosses ==
  (pc = "optimal" /\ Len(loaded) = 1) =>
    /\ naiveTotal = getSpeed(loaded[1])
    /\ log = <<CrossesLine(loaded[1])>>

\* C9 as stated: in an iteration of crossOptimally's loop the pairwise
\* branch is taken only when the pairwise cost is strictly smaller than the
\* shielding cost, and the shielding branch otherwise, also on a tie.
C9_PairwiseOnlyIfSmaller ==
  [][IterStep =>
       IF totalNaive(waitingPeople) < totalShielding(waitingPeople)
       THEN PairwiseTaken ELSE ShieldingTaken]_vars

\* C9 as amended: in an iteration of crossOptimally's loop the shielding
\* branch is taken only when the shielding cost is strictly smaller than the
\* pairwise cost, and the pairwise branch otherwise, also on a tie.
C9_ShieldingOnlyIfSmaller ==
  [][IterStep =>
       IF totalShielding(waitingPeople) < totalNaive(waitingPeople)
       THEN ShieldingTaken ELSE PairwiseTaken]_vars

\* four people, the two costs tie, and the iteration wrote the pairwise lines
C9_Witness ==
  /\ pc = "optLoop"
  /\ Len(loaded) = 4
  /\ size(waitingPeople) = 2
  /\ \E s \in StdSort(loaded) :
       /\ totalShielding(s) = totalNaive(s)
       /\ LastLines(4) = NaiveLines(s)
       /\ NaiveLines(s) # ShieldingLines(s)

\* C10: crossOptimally terminates (once the roster is sorted it reaches its
\* return); every iteration of its loop takes exactly two people off the
\* roster; the loop is left with 2 or 3 people when the roster had 4 or more,
\* and with 0 or 1 only when the roster had that many; and on return
\* waitingPeople is empty.
C10_Terminates ==
  /\ [][IterStep => size(waitingPeople') = size(waitingPeople) - 2]_vars
  /\ [][(pc = "optLoop" /\ pc' = "done") =>
          /\ Len(loaded) >= 4 => size(waitingPeople) \in {2, 3}
          /\ size(waitingPeople) \in {0, 1} => Len(loaded) = size(waitingPeople)]_vars
  /\ [](pc = "done" => waitingPeople = <<>>)
  /\ (pc = "optLoop") ~> (pc = "done")

\* six people: two iterations, then the case of two people left
C10_Witness ==
  /\ pc = "done"
  /\ Len(loaded) = 6
  /\ Len(OptimalLog) = 9
  /\ waitingPeople = <<>>

\* ------------------------------------------------------------------ the log as a schedule
\* the position in the loaded roster of the person a log line names
PositionOf(name) == CHOOSE i \in 1..Len(loaded) : getName(loaded[i]) = name

\* the people a log line names
Named(line) == {PositionOf(line.who[k]) : k \in 1..Len(line.who)}

IsCrossing(line) == line.kind \in {"cross", "crosses"}

IsReturn(line) == line.kind = "returns"

\* the start of a schedule: everyone and the torch on the near side, no
\* minute spent, nothing illegal yet
ScheduleStart == [near |-> Everyone, torch |-> "near", cost |-> 0, legal |-> TRUE]

\* the puzzle after one more log line: a crossing line moves the people it
\* names (one, or two different people) with the torch from the near side, a
\* return line moves the person it names with the torch from the far side;
\* the line costs the pace of the people it names
AfterLine(st, line) ==
  LET g == Named(line)
  IN IF IsCrossing(line)
     THEN [near |-> st.near \ g,
           torch |-> "far",
           cost |-> st.cost + Pace(g),
           legal |-> /\ st.legal
                     /\ st.torch = "near"
                     /\ g \in Groups(st.near)
                     /\ Cardinality(g) = Len(line.who)]
     ELSE [near |-> st.near \cup g,
           torch |-> "near",
           cost |-> st.cost + Pace(g),
           legal |-> /\ st.legal
                     /\ IsReturn(line)
                     /\ st.torch = "far"
                     /\ Cardinality(g) = 1
                     /\ g \subseteq (Everyone \ st.near)]

\* the puzzle after the lines k, k+1, ... of a log
RECURSIVE Replay(_, _, _)
Replay(lines, k, st) ==
  IF k > Len(lines) THEN st ELSE Replay(lines, k + 1, AfterLine(st, lines[k]))

\* crossing, return, crossing, ..., crossing
Alternates(lines) ==
  /\ Len(lines) % 2 = 1
  /\ \A k \in 1..Len(lines) :
       IF k % 2 = 1 THEN IsCrossing(lines[k]) ELSE IsReturn(lines[k])

\* C11: for a roster of one or more people the lines crossOptimally wrote are
\* a legal schedule: they alternate crossing, return, ..., first and last a
\* crossing; the people of every crossing line are on the near side with the
\* torch; the person of every return line is on the far side (with the
\* torch); after the last line everyone is across; and the total returned is
\* the sum over the lines of the pace of the slowest person named.
C11_LogIsLegalSchedule ==
  (pc = "done" /\ Len(loaded) >= 1) =>
    LET lines == OptimalLog
        end == Replay(lines, 1, ScheduleStart)
    IN /\ Alternates(lines)
       /\ end.legal
       /\ end.near = {}
       /\ end.cost = optTotal

\* six or more people listed out of order, a shielding iteration among the
\* iterations (the total beats crossNaively's), and the log replayed to the end
C11_Witness ==
  /\ pc = "done"
  /\ Len(loaded) >= 6
  /\ ~Nondecreasing(Speeds(loaded))
  /\ optTotal < naiveTotal
  /\ \E k \in 1..Len(OptimalLog) : OptimalLog[k].who = <<getName(loaded[1])>>
  /\ Replay(OptimalLog, 1, ScheduleStart).near = {}
  /\ Replay(OptimalLog, 1, ScheduleStart).legal

TypeOK ==
  /\ pc \in {"read", "naive", "naiveLoop", "optimal", "optLoop", "done", "puzzle"}
  /\ totalSpeed \in Nat
  /\ naiveTotal \in Nat
  /\ optTotal \in Nat
  /\ fastestindex \in -1..MaxLen

====
